---- MODULE Spec2Model ----
(***************************************************************************)
(* The applications of the toolbox: the Morse code translator              *)
(* (apps/morse_code_translator), the tip calculator (apps/tip-calculator), *)
(* the BMI calculator (apps/bmi_calculator) and the text analyzer          *)
(* (apps/text-analyzer).  Each has its own specification.                  *)
(*                                                                         *)
(* A Python str is modelled as a sequence of one-character strings, so     *)
(* "SOS" is <<"S", "O", "S">> and the empty str is <<>>; a character       *)
(* outside ASCII is written by name ("e-acute" is U+00E9).  A dict is a    *)
(* sequence of <<key, value>> items in insertion order; a later item with  *)
(* the same key overrides an earlier one.  A call either returns a value   *)
(* or raises; both outcomes are records built by Return and Raise.         *)
(***************************************************************************)
EXTENDS Integers, Sequences, FiniteSets, TLC

VARIABLES
    table,          \* the module global MORSE_CODE_TABLE
    reverse_table,  \* the module global REVERSE_MORSE_CODE_TABLE
    args,           \* the parsed command line: text, morse, letter_sep, word_sep
    pc,             \* "start", "encoded", "decoded", "round_trip" or "raised"
    result,         \* the TranslationResult main returns; None fields until then
    error,          \* the exception that left the call; not raised until then
    decoded,        \* test_round_trip's local `decoded`, or None
    tip,            \* one call of calculate_tip: its arguments and its outcome
    bmi,            \* one call of calculate_bmi or classify_bmi and its outcome
    analysis,       \* one call of TextAnalyzer.analyze and its outcome
    callers         \* the concurrent callers of the translator, each with its locals

morse_vars == <<table, reverse_table, args, pc, result, error, decoded>>
vars == <<table, reverse_table, args, pc, result, error, decoded, tip, bmi, analysis, callers>>

\* the value of an application's variable while another application runs
Idle == [pc |-> "idle"]

\* Python's None, where a str is expected: no str has a character "None"
None == <<"None">>

\* ---------------------------------------------------------------- bounds

MaxTextLen == 5
MaxMorseLen == 5

\* ------------------------------------------------------- the lookup tables

MORSE_CODE_TABLE ==
    <<
        <<<<"A">>, <<".", "-">>>>,
        <<<<"B">>, <<"-", ".", ".", ".">>>>,
        <<<<"C">>, <<"-", ".", "-", ".">>>>,
        <<<<"D">>, <<"-", ".", ".">>>>,
        <<<<"E">>, <<".">>>>,
        <<<<"F">>, <<".", ".", "-", ".">>>>,
        <<<<"G">>, <<"-", "-", ".">>>>,
        <<<<"H">>, <<".", ".", ".", ".">>>>,
        <<<<"I">>, <<".", ".">>>>,
        <<<<"J">>, <<".", "-", "-", "-">>>>,
        <<<<"K">>, <<"-", ".", "-">>>>,
        <<<<"L">>, <<".", "-", ".", ".">>>>,
        <<<<"M">>, <<"-", "-">>>>,
        <<<<"N">>, <<"-", ".">>>>,
        <<<<"O">>, <<"-", "-", "-">>>>,
        <<<<"P">>, <<".", "-", "-", ".">>>>,
        <<<<"Q">>, <<"-", "-", ".", "-">>>>,
        <<<<"R">>, <<".", "-", ".">>>>,
        <<<<"S">>, <<".", ".", ".">>>>,
        <<<<"T">>, <<"-">>>>,
        <<<<"U">>, <<".", ".", "-">>>>,
        <<<<"V">>, <<".", ".", ".", "-">>>>,
        <<<<"W">>, <<".", "-", "-">>>>,
        <<<<"X">>, <<"-", ".", ".", "-">>>>,
        <<<<"Y">>, <<"-", ".", "-", "-">>>>,
        <<<<"Z">>, <<"-", "-", ".", ".">>>>,
        <<<<"0">>, <<"-", "-", "-", "-", "-">>>>,
        <<<<"1">>, <<".", "-", "-", "-", "-">>>>,
        <<<<"2">>, <<".", ".", "-", "-", "-">>>>,
        <<<<"3">>, <<".", ".", ".", "-", "-">>>>,
        <<<<"4">>, <<".", ".", ".", ".", "-">>>>,
        <<<<"5">>, <<".", ".", ".", ".", ".">>>>,
        <<<<"6">>, <<"-", ".", ".", ".", ".">>>>,
        <<<<"7">>, <<"-", "-", ".", ".", ".">>>>,
        <<<<"8">>, <<"-", "-", "-", ".", ".">>>>,
        <<<<"9">>, <<"-", "-", "-", "-", ".">>>>,
        <<<<".">>, <<".", "-", ".", "-", ".", "-">>>>,
        <<<<",">>, <<"-", "-", ".", ".", "-", "-">>>>,
        <<<<"?">>, <<".", ".", "-", "-", ".", ".">>>>,
        <<<<"'">>, <<".", "-", "-", "-", "-", ".">>>>,
        <<<<"!">>, <<"-", ".", "-", ".", "-", "-">>>>,
        <<<<"/">>, <<"-", ".", ".", "-", ".">>>>,
        <<<<"(">>, <<"-", ".", "-", "-", ".">>>>,
        <<<<")">>, <<"-", ".", "-", "-", ".", "-">>>>,
        <<<<"&">>, <<".", "-", ".", ".", ".">>>>,
        <<<<":">>, <<"-", "-", "-", ".", ".", ".">>>>,
        <<<<";">>, <<"-", ".", "-", ".", "-", ".">>>>,
        <<<<"=">>, <<"-", ".", ".", ".", "-">>>>,
        <<<<"+">>, <<".", "-", ".", "-", ".">>>>,
        <<<<"-">>, <<"-", ".", ".", ".", ".", "-">>>>,
        <<<<"_">>, <<".", ".", "-", "-", ".", "-">>>>,
        <<<<"\"">>, <<".", "-", ".", ".", "-", ".">>>>,
        <<<<"$">>, <<".", ".", ".", "-", ".", ".", "-">>>>,
        <<<<"@">>, <<".", "-", "-", ".", "-", ".">>>>
    >>

\* faulty variant of REVERSE_MORSE_CODE_TABLE: the items are not turned around
REVERSE_MORSE_CODE_TABLE_as_forward ==
    [i \in 1..Len(MORSE_CODE_TABLE) |-> <<MORSE_CODE_TABLE[i][1], MORSE_CODE_TABLE[i][2]>>]

REVERSE_MORSE_CODE_TABLE ==
    [i \in 1..Len(MORSE_CODE_TABLE) |-> <<MORSE_CODE_TABLE[i][2], MORSE_CODE_TABLE[i][1]>>]

DEFAULT_LETTER_SEPARATOR == <<" ">>
DEFAULT_WORD_SEPARATOR == <<" ", "/", " ">>

\* ------------------------------------------------------ Python primitives

\* key in d
HasKey(d, key) == \E i \in 1..Len(d) : d[i][1] = key

\* d[key], for a key that is in d: the last item with that key
GetItem(d, key) ==
    d[CHOOSE i \in 1..Len(d) :
          /\ d[i][1] = key
          /\ \A j \in (i + 1)..Len(d) : d[j][1] # key][2]

Keys(d) == {d[i][1] : i \in 1..Len(d)}
Values(d) == {GetItem(d, key) : key \in Keys(d)}

Return(value) == [raised |-> FALSE, type |-> "", message |-> "", value |-> value]
Raise(type, message, value) == [raised |-> TRUE, type |-> type, message |-> message, value |-> value]

LOWERCASE == <<"a", "b", "c", "d", "e", "f", "g", "h", "i", "j", "k", "l", "m",
               "n", "o", "p", "q", "r", "s", "t", "u", "v", "w", "x", "y", "z">>
UPPERCASE == <<"A", "B", "C", "D", "E", "F", "G", "H", "I", "J", "K", "L", "M",
               "N", "O", "P", "Q", "R", "S", "T", "U", "V", "W", "X", "Y", "Z">>

\* str.upper() of one character; the result is a str and may be longer
upper(character) ==
    IF \E i \in 1..Len(LOWERCASE) : LOWERCASE[i] = character
    THEN <<UPPERCASE[CHOOSE i \in 1..Len(LOWERCASE) : LOWERCASE[i] = character]>>
    ELSE CASE character = "e-acute" -> <<"E-ACUTE">>
           [] character = "sharp-s" -> <<"S", "S">>
           [] OTHER -> <<character>>

\* str.isspace() of one character
isspace(character) == character \in {" ", "\t", "\n", "\r", "\f"}

RECURSIVE lstrip(_)
lstrip(s) == IF s # <<>> /\ isspace(Head(s)) THEN lstrip(Tail(s)) ELSE s

RECURSIVE rstrip(_)
rstrip(s) ==
    IF s # <<>> /\ isspace(s[Len(s)]) THEN rstrip(SubSeq(s, 1, Len(s) - 1)) ELSE s

\* str.strip()
strip(s) == rstrip(lstrip(s))

\* sep.join(parts)
RECURSIVE join(_, _)
join(sep, parts) ==
    IF parts = <<>> THEN <<>>
    ELSE IF Len(parts) = 1 THEN parts[1]
    ELSE parts[1] \o sep \o join(sep, Tail(parts))

\* s.find(sep, start): the least index >= start where sep occurs in s, 0 if none
find(s, sep, start) ==
    LET hits == {j \in start..(Len(s) - Len(sep) + 1) :
                     SubSeq(s, j, j + Len(sep) - 1) = sep}
    IN  IF hits = {} THEN 0 ELSE CHOOSE j \in hits : \A k \in hits : j <= k

\* s.split(sep) for a non-empty sep, scanning from index start
RECURSIVE split_from(_, _, _)
split_from(s, sep, start) ==
    LET j == find(s, sep, start)
    IN  IF j = 0 THEN <<SubSeq(s, start, Len(s))>>
        ELSE <<SubSeq(s, start, j - 1)>> \o split_from(s, sep, j + Len(sep))

\* s.split(sep); an empty sep raises ValueError("empty separator")
split(s, sep) ==
    IF sep = <<>> THEN Raise("ValueError", "empty separator", <<>>)
    ELSE Return(split_from(s, sep, 1))

\* filter(None, parts): the non-empty strs of parts
filter_none(parts) == SelectSeq(parts, LAMBDA part : part # <<>>)

\* ------------------------------------------------------------ the encoder

\* faulty variant of _normalize_text: the characters are not uppercased
_normalize_text_as_typed(text) == [i \in 1..Len(text) |-> <<text[i]>>]

_normalize_text(text) ==
    [i \in 1..Len(text) |-> IF text[i] = " " THEN <<" ">> ELSE upper(text[i])]

\* faulty variant of encode_loop: a character without a table entry is skipped
RECURSIVE encode_loop_skip(_, _, _, _, _)
encode_loop_skip(characters, i, words, current_letters, letter_sep) ==
    IF i > Len(characters)
    THEN Return(IF current_letters # <<>>
                THEN Append(words, join(letter_sep, current_letters))
                ELSE words)
    ELSE LET character == characters[i]
         IN  IF character = <<" ">>
             THEN encode_loop_skip(characters, i + 1,
                      IF current_letters # <<>>
                      THEN Append(words, join(letter_sep, current_letters))
                      ELSE words,
                      <<>>, letter_sep)
             ELSE encode_loop_skip(characters, i + 1, words,
                      IF HasKey(table, character)
                      THEN Append(current_letters, GetItem(table, character))
                      ELSE current_letters,
                      letter_sep)

\* faulty variant of encode_loop: a word is closed at every space and at the
\* end, also when it has no letters
RECURSIVE encode_loop_unchecked(_, _, _, _, _)
encode_loop_unchecked(characters, i, words, current_letters, letter_sep) ==
    IF i > Len(characters)
    THEN Return(Append(words, join(letter_sep, current_letters)))
    ELSE LET character == characters[i]
         IN  IF character = <<" ">>
             THEN encode_loop_unchecked(characters, i + 1,
                      Append(words, join(letter_sep, current_letters)), <<>>, letter_sep)
             ELSE IF HasKey(table, character)
                  THEN encode_loop_unchecked(characters, i + 1, words,
                           Append(current_letters, GetItem(table, character)), letter_sep)
                  ELSE Raise("ValueError", "Unsupported character for Morse code: ",
                             character)

\* the loop of encode_to_morse from its i-th character on; returns words
RECURSIVE encode_loop(_, _, _, _, _)
encode_loop(characters, i, words, current_letters, letter_sep) ==
    IF i > Len(characters)
    THEN Return(IF current_letters # <<>>
                THEN Append(words, join(letter_sep, current_letters))
                ELSE words)
    ELSE LET character == characters[i]
         IN  IF character = <<" ">>
             THEN IF current_letters # <<>>
                  THEN encode_loop(characters, i + 1,
                                   Append(words, join(letter_sep, current_letters)),
                                   <<>>, letter_sep)
                  ELSE encode_loop(characters, i + 1, words, current_letters, letter_sep)
             ELSE IF HasKey(table, character)
                  THEN encode_loop(characters, i + 1, words,
                                   Append(current_letters, GetItem(table, character)),
                                   letter_sep)
                  ELSE Raise("ValueError", "Unsupported character for Morse code: ",
                             character)

\* faulty variant of encode_to_morse: the two separators are swapped
encode_to_morse_swapped(text, letter_sep, word_sep) ==
    LET words == encode_loop(_normalize_text(text), 1, <<>>, <<>>, word_sep)
    IN  IF words.raised THEN words ELSE Return(join(letter_sep, words.value))

encode_to_morse(text, letter_sep, word_sep) ==
    LET words == encode_loop(_normalize_text(text), 1, <<>>, <<>>, letter_sep)
    IN  IF words.raised THEN words ELSE Return(join(word_sep, words.value))

\* ------------------------------------------------------------ the decoder

\* faulty variant of decode_letters: the error has the message of the encoder
RECURSIVE decode_letters_other_message(_, _, _)
decode_letters_other_message(tokens, i, decoded_letters) ==
    IF i > Len(tokens) THEN Return(decoded_letters)
    ELSE IF HasKey(reverse_table, tokens[i])
         THEN decode_letters_other_message(tokens, i + 1,
                  Append(decoded_letters, GetItem(reverse_table, tokens[i])))
         ELSE Raise("ValueError", "Unsupported character for Morse code: ", tokens[i])

\* faulty variant of decode_letters: a token without an entry is skipped
RECURSIVE decode_letters_skip(_, _, _)
decode_letters_skip(tokens, i, decoded_letters) ==
    IF i > Len(tokens) THEN Return(decoded_letters)
    ELSE decode_letters_skip(tokens, i + 1,
             IF HasKey(reverse_table, tokens[i])
             THEN Append(decoded_letters, GetItem(reverse_table, tokens[i]))
             ELSE decoded_letters)

\* the inner loop of decode_from_morse over the tokens of one word
RECURSIVE decode_letters(_, _, _)
decode_letters(tokens, i, decoded_letters) ==
    IF i > Len(tokens) THEN Return(decoded_letters)
    ELSE IF HasKey(reverse_table, tokens[i])
         THEN decode_letters(tokens, i + 1,
                             Append(decoded_letters, GetItem(reverse_table, tokens[i])))
         ELSE Raise("ValueError", "Unsupported Morse sequence: ", tokens[i])

\* faulty variant of decode_words: the raw word is not trimmed
RECURSIVE decode_words_untrimmed(_, _, _, _)
decode_words_untrimmed(raw_words, i, decoded_words, letter_sep) ==
    IF i > Len(raw_words) THEN Return(decoded_words)
    ELSE LET stripped_word == raw_words[i]
         IN  IF stripped_word = <<>>
             THEN decode_words_untrimmed(raw_words, i + 1, decoded_words, letter_sep)
             ELSE LET tokens == split(stripped_word, letter_sep)
                  IN  IF tokens.raised THEN tokens
                      ELSE LET decoded_letters ==
                                   decode_letters(filter_none(tokens.value), 1, <<>>)
                           IN  IF decoded_letters.raised THEN decoded_letters
                               ELSE decode_words_untrimmed(raw_words, i + 1,
                                        Append(decoded_words,
                                               join(<<>>, decoded_letters.value)),
                                        letter_sep)

\* the outer loop of decode_from_morse over the raw words
RECURSIVE decode_words(_, _, _, _)
decode_words(raw_words, i, decoded_words, letter_sep) ==
    IF i > Len(raw_words) THEN Return(decoded_words)
    ELSE LET stripped_word == strip(raw_words[i])
         IN  IF stripped_word = <<>>
             THEN decode_words(raw_words, i + 1, decoded_words, letter_sep)
             ELSE LET tokens == split(stripped_word, letter_sep)
                  IN  IF tokens.raised THEN tokens
                      ELSE LET decoded_letters ==
                                   decode_letters(filter_none(tokens.value), 1, <<>>)
                           IN  IF decoded_letters.raised THEN decoded_letters
                               ELSE decode_words(raw_words, i + 1,
                                        Append(decoded_words,
                                               join(<<>>, decoded_letters.value)),
                                        letter_sep)

\* faulty variant of decode_from_morse: the decoded words are joined by nothing
decode_from_morse_concat(morse, letter_sep, word_sep) ==
    IF strip(morse) = <<>> THEN Return(<<>>)
    ELSE LET raw_words == split(morse, word_sep)
         IN  IF raw_words.raised THEN raw_words
             ELSE LET decoded_words == decode_words(raw_words.value, 1, <<>>, letter_sep)
                  IN  IF decoded_words.raised THEN decoded_words
                      ELSE Return(join(<<>>, decoded_words.value))

\* faulty variant of decode_from_morse: no early return for a blank input
decode_from_morse_unguarded(morse, letter_sep, word_sep) ==
    LET raw_words == split(morse, word_sep)
    IN  IF raw_words.raised THEN raw_words
        ELSE LET decoded_words == decode_words(raw_words.value, 1, <<>>, letter_sep)
             IN  IF decoded_words.raised THEN decoded_words
                 ELSE Return(join(<<" ">>, decoded_words.value))

decode_from_morse(morse, letter_sep, word_sep) ==
    IF strip(morse) = <<>> THEN Return(<<>>)
    ELSE LET raw_words == split(morse, word_sep)
         IN  IF raw_words.raised THEN raw_words
             ELSE LET decoded_words == decode_words(raw_words.value, 1, <<>>, letter_sep)
                  IN  IF decoded_words.raised THEN decoded_words
                      ELSE Return(join(<<" ">>, decoded_words.value))

\* --------------------------------------------------------- the inputs

TextAlphabet == {"e", "T", "/", " ", "\t", "e-acute"}
MorseAlphabet == {".", "-", " ", "/", "\t"}

Separators ==
    { <<DEFAULT_LETTER_SEPARATOR, DEFAULT_WORD_SEPARATOR>>,
      <<<<" ">>, <<"/">>>>,
      <<<<"/">>, <<" ">>>>,
      <<<<>>, DEFAULT_WORD_SEPARATOR>>,
      <<DEFAULT_LETTER_SEPARATOR, <<>>>> }

\* argparse: exactly one of --text and --morse is given, the other is None
Arguments(a) ==
    \E s \in Separators :
        \/ \E n \in 0..MaxTextLen : \E text \in [1..n -> TextAlphabet] :
               a = [text |-> text, morse |-> None, letter_sep |-> s[1], word_sep |-> s[2]]
        \/ \E n \in 0..MaxMorseLen : \E morse \in [1..n -> MorseAlphabet] :
               a = [text |-> None, morse |-> morse, letter_sep |-> s[1], word_sep |-> s[2]]

TranslationResult(source, translated) == [source |-> source, translated |-> translated]

\* ------------------------------------------------------ the state machine

Init ==
    /\ table = MORSE_CODE_TABLE
    /\ reverse_table = REVERSE_MORSE_CODE_TABLE
    /\ Arguments(args)
    /\ pc = "start"
    /\ result = TranslationResult(None, None)
    /\ error = Return(None)
    /\ decoded = None
    /\ tip = Idle /\ bmi = Idle /\ analysis = Idle /\ callers = Idle

\* main with --text: encode_to_morse, then the TranslationResult
EncodeToMorse ==
    /\ pc = "start"
    /\ args.text # None
    /\ LET translation == encode_to_morse(args.text, args.letter_sep, args.word_sep)
       IN  IF translation.raised
           THEN /\ pc' = "raised"
                /\ error' = translation
                /\ result' = result
           ELSE /\ pc' = "encoded"
                /\ result' = TranslationResult(args.text, translation.value)
                /\ error' = error
    /\ UNCHANGED <<table, reverse_table, args, decoded, tip, bmi, analysis, callers>>

\* main with --morse: decode_from_morse, then the TranslationResult
DecodeFromMorse ==
    /\ pc = "start"
    /\ args.text = None
    /\ LET translation == decode_from_morse(args.morse, args.letter_sep, args.word_sep)
       IN  IF translation.raised
           THEN /\ pc' = "raised"
                /\ error' = translation
                /\ result' = result
           ELSE /\ pc' = "decoded"
                /\ result' = TranslationResult(args.morse, translation.value)
                /\ error' = error
    /\ UNCHANGED <<table, reverse_table, args, decoded, tip, bmi, analysis, callers>>

\* test_round_trip: the encoded text is decoded again, both with the defaults
RoundTrip ==
    /\ pc = "encoded"
    /\ args.letter_sep = DEFAULT_LETTER_SEPARATOR
    /\ args.word_sep = DEFAULT_WORD_SEPARATOR
    /\ LET back == decode_from_morse(result.translated, DEFAULT_LETTER_SEPARATOR,
                                     DEFAULT_WORD_SEPARATOR)
       IN  IF back.raised
           THEN /\ pc' = "raised"
                /\ error' = back
                /\ decoded' = decoded
           ELSE /\ pc' = "round_trip"
                /\ decoded' = back.value
                /\ error' = error
    /\ UNCHANGED <<table, reverse_table, args, result, tip, bmi, analysis, callers>>

Next == EncodeToMorse \/ DecodeFromMorse \/ RoundTrip

Spec == Init /\ [][Next]_vars

\* ------------------------------------------------ vocabulary of the claims

IsEncodeCall == args.text # None
IsDecodeCall == args.text = None
DefaultSeparators ==
    /\ args.letter_sep = DEFAULT_LETTER_SEPARATOR
    /\ args.word_sep = DEFAULT_WORD_SEPARATOR
NothingReturned == result = TranslationResult(None, None)

\* a key of MORSE_CODE_TABLE, in either letter case
Supported(character) ==
    \/ HasKey(MORSE_CODE_TABLE, <<character>>)
    \/ \E i \in 1..Len(LOWERCASE) :
           LOWERCASE[i] = character /\ HasKey(MORSE_CODE_TABLE, <<UPPERCASE[i]>>)

SupportedText(text) == \A i \in 1..Len(text) : text[i] = " " \/ Supported(text[i])
SingleSpaces(text) == \A i \in 1..(Len(text) - 1) : ~(text[i] = " " /\ text[i + 1] = " ")
NoOuterSpaces(text) == text = <<>> \/ (text[1] # " " /\ text[Len(text)] # " ")

\* text.upper()
RECURSIVE Uppercase(_)
Uppercase(text) == IF text = <<>> THEN <<>> ELSE upper(Head(text)) \o Uppercase(Tail(text))

\* the non-empty words of a text, delimited by spaces
WordsOf(text) == filter_none(split_from(text, <<" ">>, 1))

\* the positions of the characters encode_to_morse cannot translate
Offending(text) ==
    {i \in 1..Len(text) : text[i] # " " /\ ~HasKey(MORSE_CODE_TABLE, upper(text[i]))}
FirstOffending(text) == CHOOSE i \in Offending(text) : \A j \in Offending(text) : i <= j

\* ------------------------------------------------------------------- C1

\* C1 as stated: for every text of supported characters and single spaces,
\* decoding the encoded text with the default separators gives text.upper().
C1_RoundTripAsStated ==
    (IsEncodeCall /\ DefaultSeparators /\ SupportedText(args.text) /\ SingleSpaces(args.text))
        => /\ pc # "raised"
           /\ pc = "round_trip" => decoded = Uppercase(args.text)

\* C1 amended: the round trip gives text.upper() for every text of supported
\* characters and single spaces that neither starts nor ends with a space.
C1_RoundTrip ==
    (/\ IsEncodeCall /\ DefaultSeparators
     /\ SupportedText(args.text) /\ SingleSpaces(args.text) /\ NoOuterSpaces(args.text))
        => /\ pc # "raised"
           /\ pc = "round_trip" => decoded = Uppercase(args.text)

C1_Witness ==
    /\ pc = "round_trip"
    /\ SupportedText(args.text) /\ SingleSpaces(args.text) /\ NoOuterSpaces(args.text)
    /\ \E i \in 1..Len(args.text) : args.text[i] = " "
    /\ decoded # args.text
    /\ decoded = Uppercase(args.text)

\* ------------------------------------------------------------------- C2

\* C2 as stated: when some non-space character has no table entry after
\* uppercasing, encode_to_morse raises the unsupported-character error, the
\* error carries the first such character of the input, and nothing is returned.
C2_UnsupportedCharacterAsStated ==
    (IsEncodeCall /\ pc # "start" /\ Offending(args.text) # {})
        => /\ pc = "raised"
           /\ error.raised
           /\ error.message = "Unsupported character for Morse code: "
           /\ error.value = <<args.text[FirstOffending(args.text)]>>
           /\ NothingReturned

\* C2 amended: as stated, except that the error carries the uppercased form of
\* the first such character, which is what the table lookup was made with.
C2_UnsupportedCharacter ==
    (IsEncodeCall /\ pc # "start" /\ Offending(args.text) # {})
        => /\ pc = "raised"
           /\ error.raised
           /\ error.message = "Unsupported character for Morse code: "
           /\ error.value = upper(args.text[FirstOffending(args.text)])
           /\ NothingReturned

C2_Witness ==
    /\ IsEncodeCall /\ pc = "raised"
    /\ Cardinality(Offending(args.text)) >= 2
    /\ FirstOffending(args.text) > 1
    /\ \E i \in Offending(args.text) : args.text[i] # args.text[FirstOffending(args.text)]
    /\ error.value # <<args.text[FirstOffending(args.text)]>>

\* ------------------------------------------------------------------- C3

\* the chunks decode_from_morse looks at: the pieces between word separators,
\* trimmed, the empty ones left out (both separators non-empty)
RECURSIVE TrimAll(_)
TrimAll(parts) == IF parts = <<>> THEN <<>> ELSE <<strip(Head(parts))>> \o TrimAll(Tail(parts))
ChunksOf(morse, word_sep) == filter_none(TrimAll(split_from(morse, word_sep, 1)))

\* the non-empty tokens of one chunk
TokensOf(chunk, letter_sep) == filter_none(split_from(chunk, letter_sep, 1))

\* the tokens of all chunks, in input order
RECURSIVE Flatten(_, _)
Flatten(chunks, letter_sep) ==
    IF chunks = <<>> THEN <<>>
    ELSE TokensOf(Head(chunks), letter_sep) \o Flatten(Tail(chunks), letter_sep)
AllTokens(morse, letter_sep, word_sep) == Flatten(ChunksOf(morse, word_sep), letter_sep)

IsCode(token) == HasKey(REVERSE_MORSE_CODE_TABLE, token)
BadTokens(tokens) == {i \in 1..Len(tokens) : ~IsCode(tokens[i])}
FirstBad(tokens) == CHOOSE i \in BadTokens(tokens) : \A j \in BadTokens(tokens) : i <= j

NonEmptySeparators == args.letter_sep # <<>> /\ args.word_sep # <<>>

\* C3: when some non-empty token of the input has no reverse-table entry,
\* decode_from_morse raises the unsupported-sequence error, the error carries
\* the first such token in input order, and no decoded text is returned.
C3_UnsupportedSequence ==
    (IsDecodeCall /\ pc # "start" /\ NonEmptySeparators)
        => LET tokens == AllTokens(args.morse, args.letter_sep, args.word_sep)
           IN  BadTokens(tokens) # {}
                   => /\ pc = "raised"
                      /\ error.raised
                      /\ error.message = "Unsupported Morse sequence: "
                      /\ error.value = tokens[FirstBad(tokens)]
                      /\ NothingReturned

C3_Witness ==
    /\ IsDecodeCall /\ pc = "raised" /\ NonEmptySeparators
    /\ LET tokens == AllTokens(args.morse, args.letter_sep, args.word_sep)
       IN  /\ Cardinality(BadTokens(tokens)) >= 2
           /\ FirstBad(tokens) > 1
           /\ \E i \in BadTokens(tokens) : tokens[i] # tokens[FirstBad(tokens)]
           /\ error.value = tokens[FirstBad(tokens)]

\* ------------------------------------------------------------------- C4

\* the codes of the characters of one word
CodesOf(word) == [i \in 1..Len(word) |-> GetItem(MORSE_CODE_TABLE, upper(word[i]))]

\* each word as its codes joined with the letter separator
RECURSIVE EncodedWords(_, _)
EncodedWords(words, letter_sep) ==
    IF words = <<>> THEN <<>>
    ELSE <<join(letter_sep, CodesOf(Head(words)))>> \o EncodedWords(Tail(words), letter_sep)

SOS == <<"S", "O", "S">>
SOS_Morse == <<".", ".", ".", " ", "-", "-", "-", " ", ".", ".", ".">>

\* C4: for a text of supported characters and spaces and any separators,
\* encode_to_morse returns the words of the text (split on spaces), each
\* character uppercased and mapped through the table, the codes of a word
\* joined with the letter separator and the words with the word separator;
\* "SOS" gives "... --- ...".
C4_EncodeResult ==
    (IsEncodeCall /\ pc # "start" /\ SupportedText(args.text))
        => /\ result.source = args.text
           /\ result.translated =
                  join(args.word_sep, EncodedWords(WordsOf(args.text), args.letter_sep))
           /\ encode_to_morse(SOS, DEFAULT_LETTER_SEPARATOR, DEFAULT_WORD_SEPARATOR)
                  = Return(SOS_Morse)

C4_Witness ==
    /\ pc = "encoded" /\ ~DefaultSeparators
    /\ args.letter_sep # <<>> /\ args.word_sep # <<>>
    /\ Len(WordsOf(args.text)) = 2
    /\ Len(WordsOf(args.text)[1]) = 2
    /\ Uppercase(args.text) # args.text
    /\ result.translated =
           join(args.word_sep, EncodedWords(WordsOf(args.text), args.letter_sep))

\* ------------------------------------------------------------------- C5

\* the characters of the tokens of one chunk, concatenated
DecodedChunk(chunk, letter_sep) ==
    LET tokens == TokensOf(chunk, letter_sep)
    IN  join(<<>>, [i \in 1..Len(tokens) |-> GetItem(REVERSE_MORSE_CODE_TABLE, tokens[i])])

RECURSIVE DecodedChunks(_, _)
DecodedChunks(chunks, letter_sep) ==
    IF chunks = <<>> THEN <<>>
    ELSE <<DecodedChunk(Head(chunks), letter_sep)>> \o DecodedChunks(Tail(chunks), letter_sep)

\* the input with whitespace put around every piece between word separators
Padded(morse, word_sep) ==
    LET pieces == split_from(morse, word_sep, 1)
    IN  join(word_sep, [i \in 1..Len(pieces) |-> <<" ">> \o pieces[i] \o <<"\t">>])

\* the input with every letter separator written twice
Doubled(morse, letter_sep, word_sep) ==
    LET pieces == split_from(morse, word_sep, 1)
    IN  join(word_sep, [i \in 1..Len(pieces) |->
                            join(letter_sep \o letter_sep, split_from(pieces[i], letter_sep, 1))])

HELLO == <<"H", "E", "L", "L", "O">>
HELLO_Morse ==
    <<".", ".", ".", ".", " ", ".", " ", ".", "-", ".", ".", " ", ".", "-", ".", ".", " ",
      "-", "-", "-">>

\* C5: when every non-empty token has a reverse-table entry, decode_from_morse
\* returns the chunks between word separators, trimmed and the empty ones
\* skipped, each as the characters of its non-empty tokens concatenated, joined
\* with one space; writing a letter separator twice or putting whitespace
\* around a chunk does not change the result; ".... . .-.. .-.. ---" gives "HELLO".
C5_DecodeResult ==
    (/\ IsDecodeCall /\ pc # "start" /\ NonEmptySeparators
     /\ BadTokens(AllTokens(args.morse, args.letter_sep, args.word_sep)) = {})
        => /\ pc = "decoded"
           /\ result.source = args.morse
           /\ result.translated =
                  join(<<" ">>, DecodedChunks(ChunksOf(args.morse, args.word_sep), args.letter_sep))
           /\ decode_from_morse(Padded(args.morse, args.word_sep), args.letter_sep, args.word_sep)
                  = Return(result.translated)
           /\ decode_from_morse(Doubled(args.morse, args.letter_sep, args.word_sep),
                                args.letter_sep, args.word_sep)
                  = Return(result.translated)
           /\ decode_from_morse(HELLO_Morse, DEFAULT_LETTER_SEPARATOR, DEFAULT_WORD_SEPARATOR)
                  = Return(HELLO)

C5_Witness ==
    /\ pc = "decoded" /\ NonEmptySeparators
    /\ Len(ChunksOf(args.morse, args.word_sep)) = 2
    /\ \E i \in 1..Len(args.morse) : isspace(args.morse[i]) /\ args.morse[i] # " "
    /\ Len(result.translated) = 3
    /\ Doubled(args.morse, args.letter_sep, args.word_sep) # args.morse

\* ------------------------------------------------------------------- C6

RECURSIVE TrimLeft(_)
TrimLeft(s) == IF s # <<>> /\ Head(s) = " " THEN TrimLeft(Tail(s)) ELSE s
RECURSIVE TrimRight(_)
TrimRight(s) == IF s # <<>> /\ s[Len(s)] = " " THEN TrimRight(SubSeq(s, 1, Len(s) - 1)) ELSE s

\* every run of spaces replaced by one space
RECURSIVE CollapseRuns(_)
CollapseRuns(s) ==
    IF Len(s) < 2 THEN s
    ELSE IF s[1] = " " /\ s[2] = " " THEN CollapseRuns(Tail(s))
    ELSE <<Head(s)>> \o CollapseRuns(Tail(s))

\* every run of spaces between two words replaced by one space, the spaces
\* before the first word and after the last one kept
CollapseInternal(s) ==
    LET lead == Len(s) - Len(TrimLeft(s))
        core == TrimRight(TrimLeft(s))
    IN  SubSeq(s, 1, lead) \o CollapseRuns(core) \o SubSeq(s, lead + Len(core) + 1, Len(s))

\* C6 as stated: the round trip of a text of supported characters and spaces
\* gives text.upper() with every run of internal spaces replaced by one space.
C6_CollapseAsStated ==
    (IsEncodeCall /\ DefaultSeparators /\ SupportedText(args.text))
        => /\ pc # "raised"
           /\ pc = "round_trip" => decoded = CollapseInternal(Uppercase(args.text))

\* C6 amended: the round trip gives text.upper() with the leading and trailing
\* spaces removed and every run of internal spaces replaced by one space.
C6_Collapse ==
    (IsEncodeCall /\ DefaultSeparators /\ SupportedText(args.text))
        => /\ pc # "raised"
           /\ pc = "round_trip"
                  => decoded = CollapseRuns(TrimRight(TrimLeft(Uppercase(args.text))))

C6_Witness ==
    /\ pc = "round_trip" /\ SupportedText(args.text)
    /\ \E i \in 2..(Len(args.text) - 2) :
           /\ args.text[i - 1] # " " /\ args.text[i] = " "
           /\ args.text[i + 1] = " " /\ args.text[i + 2] # " "
    /\ Len(decoded) = Len(args.text) - 1

\* ------------------------------------------------------------------- C7

Blank(s) == \A i \in 1..Len(s) : isspace(s[i])

\* C7: for an input that is empty or all whitespace, decode_from_morse returns
\* the empty str and raises nothing, whatever the two separators are.
C7_BlankInput ==
    (IsDecodeCall /\ pc # "start" /\ Blank(args.morse))
        => /\ pc = "decoded"
           /\ ~error.raised
           /\ result = TranslationResult(args.morse, <<>>)

C7_Witness ==
    /\ pc = "decoded" /\ args.word_sep = <<>>
    /\ Blank(args.morse) /\ Len(args.morse) >= 2
    /\ \E i \in 1..Len(args.morse) : args.morse[i] # " "
    /\ result.translated = <<>>

\* ------------------------------------------------------------------- C8

Occurrences(s, sep) == Len(split_from(s, sep, 1)) - 1
StartsWith(s, prefix) == Len(s) >= Len(prefix) /\ SubSeq(s, 1, Len(prefix)) = prefix
EndsWith(s, suffix) ==
    Len(s) >= Len(suffix) /\ SubSeq(s, Len(s) - Len(suffix) + 1, Len(s)) = suffix

\* C8: with the default separators and a text of supported characters and
\* spaces, the output holds exactly max(0, W - 1) word separators, W the number
\* of non-empty words; it neither starts nor ends with a separator; and a text
\* without a non-space character encodes to the empty str.
C8_NoSpuriousSeparators ==
    (IsEncodeCall /\ pc # "start" /\ DefaultSeparators /\ SupportedText(args.text))
        => LET W == Len(WordsOf(args.text))
               out == result.translated
           IN  /\ Occurrences(out, DEFAULT_WORD_SEPARATOR) = IF W = 0 THEN 0 ELSE W - 1
               /\ Cardinality({i \in 1..Len(out) : out[i] = "/"}) = IF W = 0 THEN 0 ELSE W - 1
               /\ ~StartsWith(out, DEFAULT_WORD_SEPARATOR)
               /\ ~StartsWith(out, DEFAULT_LETTER_SEPARATOR)
               /\ ~EndsWith(out, DEFAULT_WORD_SEPARATOR)
               /\ ~EndsWith(out, DEFAULT_LETTER_SEPARATOR)
               /\ (\A i \in 1..Len(args.text) : args.text[i] = " ") => out = <<>>

C8_Witness ==
    /\ pc = "encoded" /\ DefaultSeparators /\ SupportedText(args.text)
    /\ Len(args.text) >= 3
    /\ args.text[1] = " " /\ args.text[Len(args.text)] = " "
    /\ Len(WordsOf(args.text)) = 2
    /\ Occurrences(result.translated, DEFAULT_WORD_SEPARATOR) = 1

\* ------------------------------------------------------------------- C9

Codes(d) == {d[i][2] : i \in 1..Len(d)}

\* no two items of d share a key or a value
Injective(d) ==
    /\ Cardinality(Keys(d)) = Len(d)
    /\ Cardinality(Codes(d)) = Len(d)

\* every code is a non-empty str of dots and dashes
DotsAndDashes(d) ==
    \A i \in 1..Len(d) :
        /\ d[i][2] # <<>>
        /\ \A k \in 1..Len(d[i][2]) : d[i][2][k] \in {".", "-"}

\* r maps exactly the codes of d, each back to its symbol
InverseOf(r, d) ==
    /\ Keys(r) = Codes(d)
    /\ \A i \in 1..Len(d) : HasKey(r, d[i][2]) /\ GetItem(r, d[i][2]) = d[i][1]

TablesAsWritten ==
    /\ Injective(MORSE_CODE_TABLE)
    /\ DotsAndDashes(MORSE_CODE_TABLE)
    /\ InverseOf(REVERSE_MORSE_CODE_TABLE, MORSE_CODE_TABLE)

\* C9: the forward table is injective, every code is a non-empty str over dot
\* and dash, and the reverse table is its exact inverse; the two globals hold
\* these tables in every state.
C9_Tables ==
    /\ table = MORSE_CODE_TABLE
    /\ reverse_table = REVERSE_MORSE_CODE_TABLE
    /\ TablesAsWritten

C9_Witness ==
    /\ pc = "round_trip"
    /\ Len(table) = 54 /\ Cardinality(Keys(reverse_table)) = 54
    /\ decoded # <<>>
    /\ \A i \in 1..Len(decoded) :
           decoded[i] # " " => GetItem(reverse_table, GetItem(table, <<decoded[i]>>)) = <<decoded[i]>>

\* ------------------------------------------------------------------ C10

\* the error of the encoder for a control character, and of the decoder for
\* the token .-.-.-.-
UnsupportedCharacterError ==
    encode_to_morse(<<"\t">>, DEFAULT_LETTER_SEPARATOR, DEFAULT_WORD_SEPARATOR)
UnsupportedSequenceError ==
    decode_from_morse(<<".", "-", ".", "-", ".", "-", ".", "-">>,
                      DEFAULT_LETTER_SEPARATOR, DEFAULT_WORD_SEPARATOR)

RaisedByEncoder == pc = "raised" /\ IsEncodeCall
RaisedForToken == pc = "raised" /\ IsDecodeCall /\ NonEmptySeparators

\* C10 as stated: the error of encode_to_morse for a character outside the
\* table and the error of decode_from_morse for a token outside the reverse
\* table are of different kinds.
C10_DistinctKindsAsStated ==
    /\ RaisedByEncoder => error.type # UnsupportedSequenceError.type
    /\ RaisedForToken => error.type # UnsupportedCharacterError.type

\* C10 amended: both errors are of the one kind ValueError; they differ in
\* their message text only, which is what tells them apart.
C10_SameKindOtherMessage ==
    pc = "raised"
        => /\ error.type = "ValueError"
           /\ UnsupportedCharacterError.raised /\ UnsupportedSequenceError.raised
           /\ UnsupportedCharacterError.type = UnsupportedSequenceError.type
           /\ UnsupportedCharacterError.message # UnsupportedSequenceError.message
           /\ RaisedByEncoder => error.message = UnsupportedCharacterError.message
           /\ RaisedForToken => error.message = UnsupportedSequenceError.message

C10_Witness ==
    /\ RaisedForToken
    /\ error.type = UnsupportedCharacterError.type
    /\ error.message = "Unsupported Morse sequence: "
    /\ UnsupportedCharacterError.message = "Unsupported character for Morse code: "

\* C19 as stated: for every Morse input and every non-empty letter separator
\* and word separator on which decode_from_morse returns a result, the result
\* has no leading space, no trailing space and no two consecutive spaces.
C19_SingleSpacesAsStated ==
    (IsDecodeCall /\ pc = "decoded" /\ NonEmptySeparators)
        => /\ NoOuterSpaces(result.translated)
           /\ SingleSpaces(result.translated)

\* ================================================== the tip calculator
\* apps/tip-calculator/tip_calculator.py

\* the idle values of the translator's variables while another application runs
MorseIdle ==
    /\ table = MORSE_CODE_TABLE
    /\ reverse_table = REVERSE_MORSE_CODE_TABLE
    /\ args = Idle
    /\ pc = "idle"
    /\ result = TranslationResult(None, None)
    /\ error = Return(None)
    /\ decoded = None

MaxPeople == 4

Abs(n) == IF n < 0 THEN -n ELSE n

RECURSIVE GCD(_, _)
GCD(a, b) == IF b = 0 THEN a ELSE GCD(b, a % b)

\* A Decimal is modelled by its exact value, the fraction num/den in lowest
\* terms with den > 0.  The values of the inputs below stay far inside the 28
\* significant digits of the decimal context, so every product, sum and
\* difference is exact, and a quotient is rounded by quantize only.
Decimal(num, den) ==
    LET g == GCD(Abs(num), den)
    IN  [num |-> num \div g, den |-> den \div g]

Mul(a, b) == Decimal(a.num * b.num, a.den * b.den)
Div(a, b) == IF b.num < 0 THEN Decimal(-(a.num * b.den), a.den * (-b.num))
                           ELSE Decimal(a.num * b.den, a.den * b.num)
Add(a, b) == Decimal(a.num * b.den + b.num * a.den, a.den * b.den)
Sub(a, b) == Decimal(a.num * b.den - b.num * a.den, a.den * b.den)
Less(a, b) == a.num * b.den < b.num * a.den

RECURSIVE Pow10(_)
Pow10(places) == IF places = 0 THEN 1 ELSE 10 * Pow10(places - 1)

CENTS == Decimal(1, 100)

\* Decimal(str(value)): the argument is the decimal literal that str() gives,
\* a signed number of units with `places` digits after the point
_to_decimal(value) == Decimal(value.units, Pow10(value.places))

\* value.quantize(CENTS, rounding): the multiple of CENTS chosen by the
\* rounding mode; ROUND_HALF_UP rounds a tie away from zero, ROUND_CEILING
\* rounds towards plus infinity
_quantize_currency_exact(value, rounding) == value

_quantize_currency_half_down(value, rounding) ==
    LET scaled    == Div(value, CENTS)
        magnitude == Abs(scaled.num)
        whole     == magnitude \div scaled.den
        rest      == magnitude % scaled.den
        cents     == IF rounding = "ROUND_CEILING"
                       THEN -((-scaled.num) \div scaled.den)
                       ELSE LET nearest == IF 2 * rest > scaled.den THEN whole + 1 ELSE whole
                            IN  IF scaled.num < 0 THEN -nearest ELSE nearest
    IN  Mul(Decimal(cents, 1), CENTS)

_quantize_currency(value, rounding) ==
    LET scaled    == Div(value, CENTS)
        magnitude == Abs(scaled.num)
        whole     == magnitude \div scaled.den
        rest      == magnitude % scaled.den
        cents     == IF rounding = "ROUND_CEILING"
                       THEN -((-scaled.num) \div scaled.den)
                       ELSE LET nearest == IF 2 * rest >= scaled.den THEN whole + 1 ELSE whole
                            IN  IF scaled.num < 0 THEN -nearest ELSE nearest
    IN  Mul(Decimal(cents, 1), CENTS)

TipBreakdown(bill_amount, tip_percent, num_people, tip_amount, total_amount, amount_per_person) ==
    [bill_amount |-> bill_amount, tip_percent |-> tip_percent, num_people |-> num_people,
     tip_amount |-> tip_amount, total_amount |-> total_amount,
     amount_per_person |-> amount_per_person]

\* lines 88-93 of calculate_tip: the checks of the three arguments, in order
calculate_tip_checks_people_first(bill, tip_pct, num_people) ==
    IF num_people <= 0
      THEN Raise("ValueError", "num_people must be greater than zero", None)
    ELSE IF tip_pct.num < 0
      THEN Raise("ValueError", "tip_percent must be non-negative", None)
    ELSE IF bill.num < 0
      THEN Raise("ValueError", "bill_amount must be non-negative", None)
    ELSE Return(None)

calculate_tip_checks(bill, tip_pct, num_people) ==
    IF Less(bill, Decimal(0, 1))
      THEN Raise("ValueError", "bill_amount must be non-negative", None)
    ELSE IF Less(tip_pct, Decimal(0, 1))
      THEN Raise("ValueError", "tip_percent must be non-negative", None)
    ELSE IF num_people <= 0
      THEN Raise("ValueError", "num_people must be greater than zero", None)
    ELSE Return(None)

\* lines 95-116 of calculate_tip: the amounts of a call whose arguments passed
\* the checks
calculate_tip_amounts_unadjusted(bill_0, tip_pct_0, num_people, round_up) ==
    LET bill           == _quantize_currency(bill_0, "ROUND_HALF_UP")
        tip_pct        == _quantize_currency(tip_pct_0, "ROUND_HALF_UP")
        tip_amount_0   == _quantize_currency(Div(Mul(bill, tip_pct), Decimal(100, 1)), "ROUND_HALF_UP")
        total_amount_0 == _quantize_currency(Add(bill, tip_amount_0), "ROUND_HALF_UP")
    IN  TipBreakdown(bill, tip_pct, num_people, tip_amount_0, total_amount_0,
                     _quantize_currency(Div(total_amount_0, Decimal(num_people, 1)),
                                        IF round_up THEN "ROUND_CEILING" ELSE "ROUND_HALF_UP"))

calculate_tip_amounts(bill_0, tip_pct_0, num_people, round_up) ==
    LET bill           == _quantize_currency(bill_0, "ROUND_HALF_UP")
        tip_pct        == _quantize_currency(tip_pct_0, "ROUND_HALF_UP")
        tip_amount_0   == _quantize_currency(Div(Mul(bill, tip_pct), Decimal(100, 1)), "ROUND_HALF_UP")
        total_amount_0 == _quantize_currency(Add(bill, tip_amount_0), "ROUND_HALF_UP")
    IN  IF round_up
          THEN LET amount_per_person == _quantize_currency(Div(total_amount_0, Decimal(num_people, 1)),
                                                           "ROUND_CEILING")
                   total_amount      == _quantize_currency(Mul(amount_per_person, Decimal(num_people, 1)),
                                                           "ROUND_HALF_UP")
                   tip_amount        == _quantize_currency(Sub(total_amount, bill), "ROUND_HALF_UP")
               IN  TipBreakdown(bill, tip_pct, num_people, tip_amount, total_amount, amount_per_person)
          ELSE TipBreakdown(bill, tip_pct, num_people, tip_amount_0, total_amount_0,
                            _quantize_currency(Div(total_amount_0, Decimal(num_people, 1)),
                                               "ROUND_HALF_UP"))

calculate_tip(bill_amount, tip_percent, num_people, round_up) ==
    LET bill    == _to_decimal(bill_amount)
        tip_pct == _to_decimal(tip_percent)
        checks  == calculate_tip_checks(bill, tip_pct, num_people)
    IN  IF checks.raised
          THEN checks
          ELSE Return(calculate_tip_amounts(bill, tip_pct, num_people, round_up))

\* the arguments of the calls: amounts with three decimals, so that some need
\* rounding to the cent and some lie exactly on half a cent
Literal(units, places) == [units |-> units, places |-> places]
BillAmounts ==
    {Literal(u, 3) : u \in {-1000, -1, 0, 4, 5, 1005, 10000, 53270, 53274, 53275, 80000}}
        \cup {Literal(100, 0), Literal(5327, 2)}
TipPercents ==
    {Literal(u, 3) : u \in {-1, 0, 4, 5, 12345, 12500}}
        \cup {Literal(15, 0), Literal(18, 0), Literal(20, 0), Literal(-5, 0)}

TipCall(bill_amount, tip_percent, num_people, round_up, at, outcome) ==
    [pc |-> at, bill_amount |-> bill_amount, tip_percent |-> tip_percent,
     num_people |-> num_people, round_up |-> round_up, outcome |-> outcome]

TipInit ==
    /\ MorseIdle
    /\ \E bill_amount \in BillAmounts, tip_percent \in TipPercents,
          num_people \in -1..MaxPeople, round_up \in BOOLEAN :
           tip = TipCall(bill_amount, tip_percent, num_people, round_up, "start", Return(None))
    /\ bmi = Idle /\ analysis = Idle /\ callers = Idle

CalculateTip ==
    /\ tip.pc = "start"
    /\ LET outcome == calculate_tip(tip.bill_amount, tip.tip_percent, tip.num_people, tip.round_up)
       IN  tip' = [tip EXCEPT !.pc = IF outcome.raised THEN "raised" ELSE "returned",
                              !.outcome = outcome]
    /\ UNCHANGED <<morse_vars, bmi, analysis, callers>>

TipNext == CalculateTip

TipSpec == TipInit /\ [][TipNext]_vars

\* ------------------------------------------- claims on the tip calculator

TipReturned == tip.pc = "returned"
TipRaised == tip.pc = "raised"
Breakdown == tip.outcome.value

HalfACent == Decimal(1, 200)
WholeCents(amount) == (100 * amount.num) % amount.den = 0
\* `cents` is `exact` rounded half-up to the cent: a whole number of cents at
\* most half a cent away from it, the upper one when two are that near
RoundedHalfUp(cents, exact) ==
    /\ WholeCents(cents)
    /\ Less(Sub(exact, HalfACent), cents)
    /\ ~Less(Add(exact, HalfACent), cents)
\* `cents` is `exact` rounded up to the cent: the least whole number of cents
\* that is not below it
RoundedUp(cents, exact) ==
    /\ WholeCents(cents)
    /\ ~Less(cents, exact)
    /\ Less(Sub(cents, CENTS), exact)

Dollars(units, cents) == Decimal(100 * units + cents, 100)
IsExampleCall ==
    /\ _to_decimal(tip.bill_amount) = Dollars(53, 27)
    /\ _to_decimal(tip.tip_percent) = Dollars(18, 0)
    /\ tip.num_people = 3

\* C12: for valid inputs with round_up false, bill and tip_percent are rounded
\* half-up to two decimals, tip_amount is bill x tip_percent / 100 rounded
\* half-up to the cent, total_amount is bill + tip_amount, and
\* amount_per_person is total_amount / num_people rounded half-up to the cent;
\* bill 53.27 at 18 % for 3 people gives 9.59, 62.86 and 20.95.
C12_PlainSplit ==
    (TipReturned /\ ~tip.round_up)
        => LET bill == Breakdown.bill_amount
               tip_pct == Breakdown.tip_percent
           IN  /\ RoundedHalfUp(bill, _to_decimal(tip.bill_amount))
               /\ RoundedHalfUp(tip_pct, _to_decimal(tip.tip_percent))
               /\ RoundedHalfUp(Breakdown.tip_amount, Div(Mul(bill, tip_pct), Decimal(100, 1)))
               /\ Breakdown.total_amount = Add(bill, Breakdown.tip_amount)
               /\ RoundedHalfUp(Breakdown.amount_per_person,
                                Div(Breakdown.total_amount, Decimal(tip.num_people, 1)))
               /\ IsExampleCall
                    => /\ Breakdown.tip_amount = Dollars(9, 59)
                       /\ Breakdown.total_amount = Dollars(62, 86)
                       /\ Breakdown.amount_per_person = Dollars(20, 95)

\* a bill on half a cent, rounded up to 1.01, whose 12.5 % tip 0.12625 is
\* rounded to 0.13 and whose total 1.14 splits in three shares of 0.38
C12_Witness ==
    /\ TipReturned /\ ~tip.round_up
    /\ tip.bill_amount = Literal(1005, 3)
    /\ tip.tip_percent = Literal(12500, 3)
    /\ tip.num_people = 3
    /\ Breakdown.bill_amount = Dollars(1, 1)
    /\ Breakdown.tip_amount = Dollars(0, 13)
    /\ Breakdown.amount_per_person = Dollars(0, 38)

\* C13: with round_up true, amount_per_person is (bill + unadjusted tip) /
\* num_people rounded up to the cent, total_amount is amount_per_person x
\* num_people, tip_amount is total_amount - bill, and total_amount is never
\* below bill + unadjusted tip; the unadjusted tip is the tip of the same call
\* with round_up false.
C13_RoundUpSplit ==
    (TipReturned /\ tip.round_up)
        => LET plain == calculate_tip(tip.bill_amount, tip.tip_percent, tip.num_people, FALSE).value
               unadjusted_total == Add(plain.bill_amount, plain.tip_amount)
               people == Decimal(tip.num_people, 1)
           IN  /\ Breakdown.bill_amount = plain.bill_amount
               /\ RoundedUp(Breakdown.amount_per_person, Div(unadjusted_total, people))
               /\ Breakdown.total_amount = Mul(Breakdown.amount_per_person, people)
               /\ Breakdown.tip_amount = Sub(Breakdown.total_amount, Breakdown.bill_amount)
               /\ ~Less(Breakdown.total_amount, unadjusted_total)

\* the example of the tests: 62.86 for three people becomes three shares of
\* 20.96, a total of 62.88 and a tip of 9.61 instead of 9.59
C13_Witness ==
    /\ TipReturned /\ tip.round_up /\ IsExampleCall
    /\ Breakdown.amount_per_person = Dollars(20, 96)
    /\ Breakdown.total_amount = Dollars(62, 88)
    /\ Breakdown.tip_amount = Dollars(9, 61)

BillIsNegative == tip.bill_amount.units < 0
PercentIsNegative == tip.tip_percent.units < 0
TooFewPeople == tip.num_people < 1

\* C14: when bill_amount is negative, tip_percent is negative or num_people is
\* less than one, calculate_tip raises ValueError and returns no TipBreakdown;
\* the message names the first offending parameter in the order bill_amount,
\* tip_percent, num_people.
C14_InvalidInputs ==
    (tip.pc # "start" /\ (BillIsNegative \/ PercentIsNegative \/ TooFewPeople))
        => /\ TipRaised
           /\ tip.outcome.type = "ValueError"
           /\ tip.outcome.value = None
           /\ tip.outcome.message =
                IF BillIsNegative THEN "bill_amount must be non-negative"
                ELSE IF PercentIsNegative THEN "tip_percent must be non-negative"
                ELSE "num_people must be greater than zero"

C14_Witness ==
    /\ TipRaised
    /\ BillIsNegative /\ PercentIsNegative /\ TooFewPeople
    /\ tip.outcome.message = "bill_amount must be non-negative"

\* C20: every TipBreakdown returned, with round_up true or false, has
\* total_amount = bill_amount + tip_amount, tip_amount >= 0, and tip_amount,
\* total_amount and amount_per_person in whole cents.
C20_BreakdownInvariant ==
    TipReturned
        => /\ Breakdown.total_amount = Add(Breakdown.bill_amount, Breakdown.tip_amount)
           /\ ~Less(Breakdown.tip_amount, Decimal(0, 1))
           /\ WholeCents(Breakdown.tip_amount)
           /\ WholeCents(Breakdown.total_amount)
           /\ WholeCents(Breakdown.amount_per_person)

\* a bill given with three decimals, a tip that is not a whole number of
\* cents before rounding, and a total that does not divide by four
C20_Witness ==
    /\ TipReturned /\ tip.round_up
    /\ tip.bill_amount = Literal(53274, 3)
    /\ tip.tip_percent = Literal(12345, 3)
    /\ tip.num_people = 4
    /\ Breakdown.tip_amount # _quantize_currency(Div(Mul(Breakdown.bill_amount, Breakdown.tip_percent),
                                                     Decimal(100, 1)), "ROUND_HALF_UP")

\* ================================================== the BMI calculator
\* apps/bmi_calculator/bmi.py

MaxBmi == 32

\* A Python float is modelled by its value, (num / den) * 2^exp with den > 0,
\* or plus infinity.  The arguments of the calls have den = 1 and a short num,
\* so they are floats exactly and so is the square of a height; a quotient is
\* kept exact, without the rounding to 53 bits that a float division makes.
\* What is kept of the binary64 format is its range: a result of 2^1024 or more
\* is too large for a float, and a result of 2^-1075 or less becomes 0.0.
Float(num, den, exp) == [inf |-> FALSE, num |-> num, den |-> den, exp |-> exp]
Infinity == [inf |-> TRUE, num |-> 1, den |-> 1, exp |-> 0]
Zero == Float(0, 1, 0)

RECURSIVE Pow2(_)
Pow2(exp) == IF exp = 0 THEN 1 ELSE 2 * Pow2(exp - 1)

\* abs(x) > 2^k and abs(x) >= 2^k, for a finite x that is not zero whose num
\* and den are below 2^10
Above(x, k) ==
    LET shift == x.exp - k
    IN  IF shift >= 0
          THEN shift > 20 \/ Abs(x.num) * Pow2(shift) > x.den
          ELSE -shift <= 20 /\ Abs(x.num) > x.den * Pow2(-shift)
AtLeast(x, k) ==
    LET shift == x.exp - k
    IN  IF shift >= 0
          THEN shift > 20 \/ Abs(x.num) * Pow2(shift) >= x.den
          ELSE -shift <= 20 /\ Abs(x.num) >= x.den * Pow2(-shift)
TooLarge(x) == AtLeast(x, 1024)
TooSmall(x) == ~Above(x, -1075)

\* the exact fraction of a finite float between 2^-10 and 2^10
Fraction(x) ==
    IF x.exp >= 0 THEN Decimal(x.num * Pow2(x.exp), x.den)
                  ELSE Decimal(x.num, x.den * Pow2(-x.exp))
Moderate(x) == ~x.inf /\ x.num # 0 /\ AtLeast(x, -10) /\ ~AtLeast(x, 10)

\* x <= 0
NotPositive(x) == ~x.inf /\ x.num <= 0

\* x < num / den, for a positive num / den below 2^10
LessThan(x, num, den) ==
    IF x.inf THEN FALSE
    ELSE IF x.num <= 0 THEN TRUE
    ELSE IF Moderate(x) THEN Less(Fraction(x), Decimal(num, den))
    ELSE ~AtLeast(x, 10)

\* x ** 2: an overflow raises OverflowError, an underflow gives 0.0
square(x) ==
    LET exact == Float(x.num * x.num, x.den * x.den, 2 * x.exp)
    IN  IF x.inf THEN Return(Infinity)
        ELSE IF x.num = 0 THEN Return(Zero)
        ELSE IF TooLarge(exact) THEN Raise("OverflowError", "(34, 'Numerical result out of range')", None)
        ELSE IF TooSmall(exact) THEN Return(Zero)
        ELSE Return(exact)

\* x / y for a positive x: a zero divisor raises ZeroDivisionError, an overflow
\* gives inf, an underflow gives 0.0
truediv(x, y) ==
    LET exact == Float(x.num * y.den, x.den * y.num, x.exp - y.exp)
    IN  IF ~y.inf /\ y.num = 0 THEN Raise("ZeroDivisionError", "float division by zero", None)
        ELSE IF y.inf THEN Return(Zero)
        ELSE IF x.inf \/ TooLarge(exact) THEN Return(Infinity)
        ELSE IF TooSmall(exact) THEN Return(Zero)
        ELSE Return(exact)

\* round(x, 1) for x >= 0: the nearest number of tenths, the even one of two
\* equally near; inf stays inf, and so does a whole number of 2^10 or more
\* (the only finite values of that size that the calls of the model produce)
round_1(x) ==
    IF x.inf THEN x
    ELSE IF x.num = 0 \/ ~AtLeast(x, -10) THEN Zero
    ELSE IF ~Moderate(x) THEN x
    ELSE LET tenths == Mul(Fraction(x), Decimal(10, 1))
             whole  == tenths.num \div tenths.den
             twice  == 2 * (tenths.num % tenths.den)
             up     == twice > tenths.den \/ (twice = tenths.den /\ whole % 2 = 1)
         IN  Float(IF up THEN whole + 1 ELSE whole, 10, 0)

BMIResult(value, category) == [bmi |-> value, category |-> category]

classify_bmi_shifted_bands(value) ==
    IF LessThan(value, 75, 4) THEN "Underweight"
    ELSE IF LessThan(value, 101, 4) THEN "Normal weight"
    ELSE IF LessThan(value, 121, 4) THEN "Overweight"
    ELSE "Obesity"

classify_bmi(value) ==
    IF LessThan(value, 37, 2) THEN "Underweight"
    ELSE IF LessThan(value, 25, 1) THEN "Normal weight"
    ELSE IF LessThan(value, 30, 1) THEN "Overweight"
    ELSE "Obesity"

\* faulty variant of calculate_bmi: the category is that of the rounded value
calculate_bmi_classifying_rounded(weight_kg, height_m) ==
    IF NotPositive(height_m) THEN Raise("ValueError", "height must be greater than zero", None)
    ELSE IF NotPositive(weight_kg) THEN Raise("ValueError", "weight must be greater than zero", None)
    ELSE LET squared == square(height_m)
         IN  IF squared.raised THEN squared
             ELSE LET quotient == truediv(weight_kg, squared.value)
                  IN  IF quotient.raised THEN quotient
                      ELSE Return(BMIResult(round_1(quotient.value),
                                            classify_bmi(round_1(quotient.value))))

calculate_bmi(weight_kg, height_m) ==
    IF NotPositive(height_m) THEN Raise("ValueError", "height must be greater than zero", None)
    ELSE IF NotPositive(weight_kg) THEN Raise("ValueError", "weight must be greater than zero", None)
    ELSE LET squared == square(height_m)
         IN  IF squared.raised THEN squared
             ELSE LET quotient == truediv(weight_kg, squared.value)
                  IN  IF quotient.raised THEN quotient
                      ELSE Return(BMIResult(round_1(quotient.value),
                                            classify_bmi(quotient.value)))

\* the arguments of the calls: weights and heights of everyday size (some
\* with a quotient just below or just above 18.5, 25 or 30), zero and negative
\* ones, and positive ones near the two ends of the float range
Weights ==
    {Float(w, 1, 0) : w \in {-60, 0, 45, 68, 74, 99, 100, 120}}
        \cup {Float(eighths, 1, -3) : eighths \in {591, 799, 801, 959}}
        \cup {Float(1, 1, -1074), Float(1, 1, 1000)}
Heights ==
    {Float(-9, 1, -2), Zero, Float(3, 1, -1), Float(7, 1, -2), Float(1, 1, 1),
     Float(1, 1, -600), Float(1, 1, -520), Float(1, 1, -500), Float(1, 1, 600)}
BmiValues == {Float(quarters, 1, -2) : quarters \in (-4)..(4 * MaxBmi)} \cup {Infinity}

BmiCall(op, weight_kg, height_m, value, at, outcome) ==
    [pc |-> at, op |-> op, weight_kg |-> weight_kg, height_m |-> height_m,
     value |-> value, outcome |-> outcome]

BmiInit ==
    /\ MorseIdle
    /\ \/ \E weight_kg \in Weights, height_m \in Heights :
            bmi = BmiCall("calculate_bmi", weight_kg, height_m, Zero, "start", Return(None))
       \/ \E value \in BmiValues :
            bmi = BmiCall("classify_bmi", Zero, Zero, value, "start", Return(None))
    /\ tip = Idle /\ analysis = Idle /\ callers = Idle

CalculateBmi ==
    /\ bmi.pc = "start" /\ bmi.op = "calculate_bmi"
    /\ LET outcome == calculate_bmi(bmi.weight_kg, bmi.height_m)
       IN  bmi' = [bmi EXCEPT !.pc = IF outcome.raised THEN "raised" ELSE "returned",
                              !.outcome = outcome]
    /\ UNCHANGED <<morse_vars, tip, analysis, callers>>

ClassifyBmi ==
    /\ bmi.pc = "start" /\ bmi.op = "classify_bmi"
    /\ bmi' = [bmi EXCEPT !.pc = "returned", !.outcome = Return(classify_bmi(bmi.value))]
    /\ UNCHANGED <<morse_vars, tip, analysis, callers>>

BmiNext == CalculateBmi \/ ClassifyBmi

BmiSpec == BmiInit /\ [][BmiNext]_vars

\* ------------------------------------------- claims on the BMI calculator

CalculateBmiDone == bmi.op = "calculate_bmi" /\ bmi.pc # "start"
ClassifyBmiDone == bmi.op = "classify_bmi" /\ bmi.pc = "returned"
StrictlyPositive(x) == x.inf \/ x.num > 0

\* C15 as stated: calculate_bmi raises ValueError and returns no BMIResult
\* whenever weight_kg <= 0 or height_m <= 0, and returns a result for every
\* input with both strictly positive.
C15_ValidatesInputsAsStated ==
    CalculateBmiDone
        => IF StrictlyPositive(bmi.weight_kg) /\ StrictlyPositive(bmi.height_m)
             THEN bmi.pc = "returned" /\ ~bmi.outcome.raised
             ELSE /\ bmi.pc = "raised"
                  /\ bmi.outcome.type = "ValueError"
                  /\ bmi.outcome.value = None

\* the number of quarters of a BMI value given as quarters
Quarters(value) == value.num

\* C16: classify_bmi gives every BMI value exactly one category, with
\* half-open bands: below 18.5 Underweight, from 18.5 up to but excluding 25
\* Normal weight, from 25 up to but excluding 30 Overweight, 30 or more Obesity.
C16_Bands ==
    ClassifyBmiDone
        => LET category == bmi.outcome.value
               quarters == Quarters(bmi.value)
           IN  /\ category \in {"Underweight", "Normal weight", "Overweight", "Obesity"}
               /\ category = "Underweight" <=> (~bmi.value.inf /\ 2 * quarters < 4 * 37)
               /\ category = "Normal weight"
                    <=> (~bmi.value.inf /\ 2 * quarters >= 4 * 37 /\ quarters < 4 * 25)
               /\ category = "Overweight"
                    <=> (~bmi.value.inf /\ quarters >= 4 * 25 /\ quarters < 4 * 30)
               /\ category = "Obesity" <=> (bmi.value.inf \/ quarters >= 4 * 30)

\* the value 25 itself, the lower end of its band
C16_Witness ==
    /\ ClassifyBmiDone
    /\ bmi.value = Float(100, 1, -2)
    /\ bmi.outcome.value = "Overweight"

\* the band of an exact fraction
BandOf(fraction) ==
    IF Less(fraction, Decimal(37, 2)) THEN "Underweight"
    ELSE IF Less(fraction, Decimal(25, 1)) THEN "Normal weight"
    ELSE IF Less(fraction, Decimal(30, 1)) THEN "Overweight"
    ELSE "Obesity"

\* a call of calculate_bmi that returned for a weight and a height of everyday
\* size, and the exact quotient weight_kg / height_m^2 of such a call
EverydayCall ==
    /\ bmi.op = "calculate_bmi" /\ bmi.pc = "returned"
    /\ Moderate(bmi.weight_kg) /\ Moderate(bmi.height_m)
Quotient ==
    Div(Fraction(bmi.weight_kg), Mul(Fraction(bmi.height_m), Fraction(bmi.height_m)))
Thresholds == {Decimal(37, 2), Decimal(25, 1), Decimal(30, 1)}
WholeTenths(value) == (10 * value.num) % value.den = 0
\* rounding moved the value up to or beyond a threshold that the quotient is below
RoundedAcross(exact, rounded) ==
    \E threshold \in Thresholds : Less(exact, threshold) /\ ~Less(rounded, threshold)

\* C21: for every valid input the category returned by calculate_bmi is the
\* band of the unrounded quotient weight_kg / height_m^2, not of the bmi field,
\* which is that quotient rounded to one decimal; the category is the band of
\* the returned bmi except where rounding moved the value across 18.5, 25 or 30.
C21_CategoryOfQuotient ==
    EverydayCall
        => LET rounded == Fraction(bmi.outcome.value.bmi)
           IN  /\ bmi.outcome.value.category = BandOf(Quotient)
               /\ WholeTenths(rounded)
               /\ ~Less(Decimal(1, 20), Sub(rounded, Quotient))
               /\ ~Less(Decimal(1, 20), Sub(Quotient, rounded))
               /\ RoundedAcross(Quotient, rounded)
                    <=> bmi.outcome.value.category # BandOf(rounded)

\* 99.875 kg at 2.0 m: the quotient 24.96875 is Normal weight, the returned
\* bmi is 25.0
C21_Witness ==
    /\ EverydayCall
    /\ bmi.weight_kg = Float(799, 1, -3) /\ bmi.height_m = Float(1, 1, 1)
    /\ Fraction(bmi.outcome.value.bmi) = Decimal(25, 1)
    /\ bmi.outcome.value.category = "Normal weight"

\* ================================================== the text analyzer
\* apps/text-analyzer/text_analyzer.py

MaxAnalyzedLen == 4

DIGITS == <<"0", "1", "2", "3", "4", "5", "6", "7", "8", "9">>

InSeq(character, characters) == \E i \in 1..Len(characters) : characters[i] = character

\* str.lower() of one character
lower(character) ==
    IF InSeq(character, UPPERCASE)
    THEN LOWERCASE[CHOOSE i \in 1..Len(UPPERCASE) : UPPERCASE[i] = character]
    ELSE IF character = "E-ACUTE" THEN "e-acute" ELSE character

\* the characters that \w matches: letters, digits and the underscore
IsWordCharacter(character) ==
    \/ InSeq(character, LOWERCASE) \/ InSeq(character, UPPERCASE)
    \/ InSeq(character, DIGITS)
    \/ character \in {"_", "e-acute", "E-ACUTE", "sharp-s"}

\* self.words_per_minute, set by __init__
words_per_minute == 200

TextStats(word_count, character_count, character_count_no_spaces, sentence_count, paragraph_count, reading_time_minutes, most_common_words) ==
    [word_count |-> word_count, character_count |-> character_count,
     character_count_no_spaces |-> character_count_no_spaces,
     sentence_count |-> sentence_count, paragraph_count |-> paragraph_count,
     reading_time_minutes |-> reading_time_minutes,
     most_common_words |-> most_common_words]

\* re.findall(r'\b\w+\b', s) from index i on: the maximal runs of word
\* characters, `current` being the run that ends before i
RECURSIVE findall_words(_, _, _)
findall_words(s, i, current) ==
    IF i > Len(s) THEN (IF current = <<>> THEN <<>> ELSE <<current>>)
    ELSE IF IsWordCharacter(s[i]) THEN findall_words(s, i + 1, Append(current, s[i]))
    ELSE (IF current = <<>> THEN <<>> ELSE <<current>>) \o findall_words(s, i + 1, <<>>)

_get_words(text) ==
    findall_words([i \in 1..Len(text) |-> lower(text[i])], 1, <<>>)

\* re.split(r'[.!?]+', s) from index i on: the pieces between the maximal runs
\* of sentence-ending punctuation, `current` being the piece that ends before i
RECURSIVE split_sentences(_, _, _)
split_sentences(s, i, current) ==
    IF i > Len(s) THEN <<current>>
    ELSE IF s[i] \in {".", "!", "?"}
      THEN IF i > 1 /\ s[i - 1] \in {".", "!", "?"}
             THEN split_sentences(s, i + 1, current)
             ELSE <<current>> \o split_sentences(s, i + 1, <<>>)
    ELSE split_sentences(s, i + 1, Append(current, s[i]))

\* the pieces that are not blank
NotBlank(pieces) == SelectSeq(pieces, LAMBDA piece : strip(piece) # <<>>)

_count_sentences(text) == Len(NotBlank(split_sentences(text, 1, <<>>)))

_count_paragraphs(text) == Len(NotBlank(split(text, <<"\n", "\n">>).value))

stop_words ==
    {<<"t", "h", "e">>, <<"a">>, <<"a", "n">>, <<"a", "n", "d">>,
     <<"o", "r">>, <<"b", "u", "t">>, <<"i", "n">>, <<"o", "n">>,
     <<"a", "t">>, <<"t", "o">>, <<"f", "o", "r">>, <<"o", "f">>,
     <<"w", "i", "t", "h">>, <<"b", "y">>, <<"i", "s">>, <<"a", "r", "e">>,
     <<"w", "a", "s">>, <<"w", "e", "r", "e">>, <<"b", "e">>,
     <<"b", "e", "e", "n">>, <<"h", "a", "v", "e">>, <<"h", "a", "s">>,
     <<"h", "a", "d">>, <<"d", "o">>, <<"d", "o", "e", "s">>,
     <<"d", "i", "d">>, <<"w", "i", "l", "l">>, <<"w", "o", "u", "l", "d">>,
     <<"c", "o", "u", "l", "d">>, <<"s", "h", "o", "u", "l", "d">>,
     <<"m", "a", "y">>, <<"m", "i", "g", "h", "t">>, <<"m", "u", "s", "t">>,
     <<"c", "a", "n">>, <<"t", "h", "i", "s">>, <<"t", "h", "a", "t">>,
     <<"t", "h", "e", "s", "e">>, <<"t", "h", "o", "s", "e">>, <<"i">>,
     <<"y", "o", "u">>, <<"h", "e">>, <<"s", "h", "e">>, <<"i", "t">>,
     <<"w", "e">>, <<"t", "h", "e", "y">>, <<"m", "e">>, <<"h", "i", "m">>,
     <<"h", "e", "r">>, <<"u", "s">>, <<"t", "h", "e", "m">>}

\* word_freq[word] = word_freq.get(word, 0) + 1; an item keeps its place
CountWord(word_freq, word) ==
    IF HasKey(word_freq, word)
      THEN [i \in 1..Len(word_freq) |->
               IF word_freq[i][1] = word THEN <<word, word_freq[i][2] + 1>> ELSE word_freq[i]]
      ELSE Append(word_freq, <<word, 1>>)

RECURSIVE count_words(_, _, _)
count_words(words, i, word_freq) ==
    IF i > Len(words) THEN word_freq
    ELSE IF words[i] \notin stop_words /\ Len(words[i]) > 2
      THEN count_words(words, i + 1, CountWord(word_freq, words[i]))
    ELSE count_words(words, i + 1, word_freq)

\* sorted(items, key=lambda x: x[1], reverse=True): by falling count, items
\* of equal count in their order in items
RECURSIVE sorted_by_count(_)
sorted_by_count(items) ==
    IF items = <<>> THEN <<>>
    ELSE LET first == CHOOSE i \in 1..Len(items) :
                          /\ \A j \in 1..Len(items) : items[j][2] <= items[i][2]
                          /\ \A j \in 1..(i - 1) : items[j][2] < items[i][2]
         IN  <<items[first]>>
                 \o sorted_by_count(SubSeq(items, 1, first - 1) \o SubSeq(items, first + 1, Len(items)))

_get_most_common_words(text, limit) ==
    LET sorted_words == sorted_by_count(count_words(_get_words(text), 1, <<>>))
    IN  SubSeq(sorted_words, 1, IF Len(sorted_words) < limit THEN Len(sorted_words) ELSE limit)

\* the characters of text other than ' ', '\n' and '\t'
WithoutSpaces(text) == SelectSeq(text, LAMBDA character : character \notin {" ", "\n", "\t"})

analyze(text) ==
    IF text = <<>> \/ strip(text) = <<>>
      THEN TextStats(0, 0, 0, 0, 0, Decimal(0, 1), <<>>)
      ELSE LET word_count == Len(_get_words(text))
           IN  TextStats(word_count, Len(text), Len(WithoutSpaces(text)),
                         _count_sentences(text), _count_paragraphs(text),
                         Decimal(word_count, words_per_minute),
                         _get_most_common_words(text, 10))

\* the texts analyzed: letters in both cases, a digit, an apostrophe, a full
\* stop and the three kinds of whitespace that analyze removes
AnalyzerAlphabet == {"a", "I", "7", "'", ".", " ", "\n", "\t"}

AnalyzerCall(text, at, outcome) == [pc |-> at, text |-> text, outcome |-> outcome]

AnalyzerInit ==
    /\ MorseIdle
    /\ \E n \in 0..MaxAnalyzedLen :
         \E text \in [1..n -> AnalyzerAlphabet] :
           analysis = AnalyzerCall(text, "start", Return(None))
    /\ tip = Idle /\ bmi = Idle /\ callers = Idle

Analyze ==
    /\ analysis.pc = "start"
    /\ analysis' = [analysis EXCEPT !.pc = "returned", !.outcome = Return(analyze(analysis.text))]
    /\ UNCHANGED <<morse_vars, tip, bmi, callers>>

AnalyzerNext == Analyze

AnalyzerSpec == AnalyzerInit /\ [][AnalyzerNext]_vars

\* ------------------------------------------- claims on the text analyzer

Analyzed == analysis.pc = "returned"
Stats == analysis.outcome.value
WhitespaceOnly(text) == text # <<>> /\ \A i \in 1..Len(text) : isspace(text[i])

\* C17 as stated: on a non-empty text of whitespace only, analyze returns
\* word_count 0, character_count equal to the length of the text, and
\* character_count_no_spaces 0.
C17_WhitespaceOnlyAsStated ==
    (Analyzed /\ WhitespaceOnly(analysis.text))
        => /\ Stats.word_count = 0
           /\ Stats.character_count = Len(analysis.text)
           /\ Stats.character_count_no_spaces = 0

\* text.split(): the pieces of text between its runs of whitespace
RECURSIVE WhitespaceDelimited(_, _, _)
WhitespaceDelimited(text, i, current) ==
    IF i > Len(text) THEN (IF current = <<>> THEN <<>> ELSE <<current>>)
    ELSE IF isspace(text[i])
      THEN (IF current = <<>> THEN <<>> ELSE <<current>>) \o WhitespaceDelimited(text, i + 1, <<>>)
    ELSE WhitespaceDelimited(text, i + 1, Append(current, text[i]))

IsLetterOrDigit(character) ==
    InSeq(character, LOWERCASE) \/ InSeq(character, UPPERCASE) \/ InSeq(character, DIGITS)
HasLetterOrDigit(word) == \E i \in 1..Len(word) : IsLetterOrDigit(word[i])

\* C18 as stated: punctuation attached to or inside a word does not change the
\* count, and a contraction counts as one word: word_count is the number of
\* whitespace-delimited words that contain a letter or digit.
C18_WordCountAsStated ==
    Analyzed
        => Stats.word_count
             = Len(SelectSeq(WhitespaceDelimited(analysis.text, 1, <<>>), HasLetterOrDigit))

\* ======================================== concurrent callers of the translator
\* Independent callers run encode_to_morse and decode_from_morse at the same
\* time.  A caller has its own arguments and locals; the two tables are the
\* module's globals, shared by all callers.  A step of a caller is one
\* iteration of the loop of its call, so the calls interleave between any two
\* lookups in the tables.

MaxConcurrentLen == 2

CallerIds == {1, 2}
ConcurrentTextAlphabet == {"e", " ", "\t"}
ConcurrentMorseAlphabet == {".", "/", "#"}

\* the frame of a call: its arguments, its position, the locals of
\* encode_to_morse (items is the normalised text) or of decode_from_morse
\* (items is the list of raw words, words the decoded words), its outcome, and
\* `alone`, the outcome of the same call run alone from the initial tables
Caller(op, source, alone) ==
    [op |-> op, source |-> source, letter_sep |-> <<" ">>, word_sep |-> <<"/">>,
     pc |-> "start", items |-> <<>>, i |-> 1, words |-> <<>>, current_letters |-> <<>>,
     outcome |-> Return(None), alone |-> alone]

ConcurrentTexts == UNION {[1..n -> ConcurrentTextAlphabet] : n \in 0..MaxConcurrentLen}
ConcurrentMorse == UNION {[1..n -> ConcurrentMorseAlphabet] : n \in 0..MaxConcurrentLen}

Frames ==
    {Caller("encode_to_morse", text, encode_to_morse(text, <<" ">>, <<"/">>)) :
         text \in ConcurrentTexts}
      \cup {Caller("decode_from_morse", morse, decode_from_morse(morse, <<" ">>, <<"/">>)) :
                morse \in ConcurrentMorse}

ConcurrentInit ==
    /\ MorseIdle
    /\ callers \in [CallerIds -> Frames]
    /\ tip = Idle /\ bmi = Idle /\ analysis = Idle

\* the entry of a call, up to its loop: encode_to_morse normalises the text;
\* decode_from_morse returns "" for a blank input and splits any other
begin(caller) ==
    IF caller.op = "encode_to_morse"
      THEN [caller EXCEPT !.pc = "loop", !.items = _normalize_text(caller.source)]
    ELSE IF strip(caller.source) = <<>>
      THEN [caller EXCEPT !.pc = "returned", !.outcome = Return(<<>>)]
    ELSE LET raw_words == split(caller.source, caller.word_sep)
         IN  IF raw_words.raised
               THEN [caller EXCEPT !.pc = "raised", !.outcome = raw_words]
               ELSE [caller EXCEPT !.pc = "loop", !.items = raw_words.value]

\* one iteration of the loop of encode_to_morse, for the character items[i]
encode_step(caller) ==
    LET character == caller.items[caller.i]
    IN  IF character = <<" ">>
          THEN IF caller.current_letters # <<>>
                 THEN [caller EXCEPT !.i = @ + 1,
                                     !.words = Append(@, join(caller.letter_sep, caller.current_letters)),
                                     !.current_letters = <<>>]
                 ELSE [caller EXCEPT !.i = @ + 1]
        ELSE IF HasKey(table, character)
          THEN [caller EXCEPT !.i = @ + 1,
                              !.current_letters = Append(@, GetItem(table, character))]
        ELSE [caller EXCEPT !.pc = "raised",
                            !.outcome = Raise("ValueError", "Unsupported character for Morse code: ",
                                              character)]

\* the end of encode_to_morse, after the last character
encode_return(caller) ==
    LET words == IF caller.current_letters # <<>>
                   THEN Append(caller.words, join(caller.letter_sep, caller.current_letters))
                   ELSE caller.words
    IN  [caller EXCEPT !.pc = "returned", !.words = words,
                       !.outcome = Return(join(caller.word_sep, words))]

\* one iteration of the outer loop of decode_from_morse, for the raw word items[i]
decode_step(caller) ==
    LET stripped_word == strip(caller.items[caller.i])
    IN  IF stripped_word = <<>> THEN [caller EXCEPT !.i = @ + 1]
        ELSE LET tokens == split(stripped_word, caller.letter_sep)
             IN  IF tokens.raised THEN [caller EXCEPT !.pc = "raised", !.outcome = tokens]
                 ELSE LET decoded_letters == decode_letters(filter_none(tokens.value), 1, <<>>)
                      IN  IF decoded_letters.raised
                            THEN [caller EXCEPT !.pc = "raised", !.outcome = decoded_letters]
                            ELSE [caller EXCEPT !.i = @ + 1,
                                                !.words = Append(@, join(<<>>, decoded_letters.value))]

\* the end of decode_from_morse, after the last raw word
decode_return(caller) ==
    [caller EXCEPT !.pc = "returned", !.outcome = Return(join(<<" ">>, caller.words))]

InLoop(id, op) == callers[id].pc = "loop" /\ callers[id].op = op

Begin(id) ==
    /\ callers[id].pc = "start"
    /\ callers' = [callers EXCEPT ![id] = begin(@)]
    /\ UNCHANGED <<morse_vars, tip, bmi, analysis>>

\* faulty variant of EncodeStep: the entry that was looked up is taken out of
\* the table
EncodeStepConsuming(id) ==
    /\ InLoop(id, "encode_to_morse") /\ callers[id].i <= Len(callers[id].items)
    /\ callers' = [callers EXCEPT ![id] = encode_step(@)]
    /\ table' = SelectSeq(table, LAMBDA item : item[1] # callers[id].items[callers[id].i])
    /\ UNCHANGED <<reverse_table, args, pc, result, error, decoded, tip, bmi, analysis>>

EncodeStep(id) ==
    /\ InLoop(id, "encode_to_morse") /\ callers[id].i <= Len(callers[id].items)
    /\ callers' = [callers EXCEPT ![id] = encode_step(@)]
    /\ UNCHANGED <<morse_vars, tip, bmi, analysis>>

EncodeReturn(id) ==
    /\ InLoop(id, "encode_to_morse") /\ callers[id].i > Len(callers[id].items)
    /\ callers' = [callers EXCEPT ![id] = encode_return(@)]
    /\ UNCHANGED <<morse_vars, tip, bmi, analysis>>

DecodeStep(id) ==
    /\ InLoop(id, "decode_from_morse") /\ callers[id].i <= Len(callers[id].items)
    /\ callers' = [callers EXCEPT ![id] = decode_step(@)]
    /\ UNCHANGED <<morse_vars, tip, bmi, analysis>>

DecodeReturn(id) ==
    /\ InLoop(id, "decode_from_morse") /\ callers[id].i > Len(callers[id].items)
    /\ callers' = [callers EXCEPT ![id] = decode_return(@)]
    /\ UNCHANGED <<morse_vars, tip, bmi, analysis>>

ConcurrentNext ==
    \E id \in CallerIds :
        \/ Begin(id)
        \/ EncodeStep(id)
        \/ EncodeReturn(id)
        \/ DecodeStep(id)
        \/ DecodeReturn(id)

ConcurrentSpec == ConcurrentInit /\ [][ConcurrentNext]_vars

\* ------------------------------------------- claims on concurrent callers

Finished(id) == callers[id].pc \in {"returned", "raised"}

\* C11: encode_to_morse and decode_from_morse never modify MORSE_CODE_TABLE or
\* REVERSE_MORSE_CODE_TABLE, whether they return or fail; hence in any
\* interleaving of the calls of independent concurrent callers, each call has
\* the outcome it has when run alone.
C11_NoInterference ==
    /\ table = MORSE_CODE_TABLE
    /\ reverse_table = REVERSE_MORSE_CODE_TABLE
    /\ \A id \in CallerIds : Finished(id) => callers[id].outcome = callers[id].alone

\* an encoder that failed at its second lookup and a decoder that returned
\* after the two iterations of its loop
C11_Witness ==
    /\ callers[1].op = "encode_to_morse" /\ callers[1].pc = "raised"
    /\ callers[1].current_letters = <<<<".">>>>
    /\ callers[2].op = "decode_from_morse" /\ callers[2].pc = "returned"
    /\ callers[2].i = 3
    /\ callers[2].outcome.value = <<"E">>

====
